---- MODULE Spec2Model ----
(***************************************************************************)
(* Model of the etesty2 scraper: the extraction functions of               *)
(* HTMLParserDataProcessor (src/src/dataProcessor.ts), the AxiosFetcher    *)
(* (src/src/fetcher.ts) and the crawl of main (src/src/index.ts).          *)
(*                                                                         *)
(* Representation.  A JavaScript string is a sequence of tokens; the       *)
(* delimiters the code splits on ("/" and "'") and the blank " " are       *)
(* tokens of their own, so split, replace, startsWith and trim are         *)
(* computed as the code computes them.  An optional value (undefined or    *)
(* null in the code) is a sequence of length 0 or 1.                       *)
(***************************************************************************)
EXTENDS Integers, Sequences, FiniteSets, TLC

\* ------------------------------------------------------------------------
\* Bounds of the model
\* ------------------------------------------------------------------------
MaxRuns == 2

MaxQuestions == 3

\* ------------------------------------------------------------------------
\* Optional values and sequences
\* ------------------------------------------------------------------------
Undefined == <<>>

Some(x) == <<x>>

IsDefined(o) == o # <<>>

Get(o) == o[1]

Last(s) == s[Len(s)]

Front(s) == SubSeq(s, 1, Len(s) - 1)

\* ------------------------------------------------------------------------
\* JavaScript string operations on token sequences
\* ------------------------------------------------------------------------
IndexOf(s, d) ==
    IF \E i \in 1..Len(s) : s[i] = d
    THEN CHOOSE i \in 1..Len(s) : s[i] = d /\ \A j \in 1..(i - 1) : s[j] # d
    ELSE 0

RECURSIVE Split(_, _)
Split(s, d) ==
    IF IndexOf(s, d) = 0
    THEN <<s>>
    ELSE <<SubSeq(s, 1, IndexOf(s, d) - 1)>>
            \o Split(SubSeq(s, IndexOf(s, d) + 1, Len(s)), d)

ReplaceFirst(s, d) ==
    IF IndexOf(s, d) = 0
    THEN s
    ELSE SubSeq(s, 1, IndexOf(s, d) - 1) \o SubSeq(s, IndexOf(s, d) + 1, Len(s))

StartsWith(s, p) == Len(s) >= Len(p) /\ SubSeq(s, 1, Len(p)) = p

RECURSIVE TrimStart(_)
TrimStart(s) ==
    IF s # <<>> /\ s[1] = " " THEN TrimStart(Tail(s)) ELSE s

RECURSIVE TrimEnd(_)
TrimEnd(s) ==
    IF s # <<>> /\ Last(s) = " " THEN TrimEnd(Front(s)) ELSE s

Trim(s) == TrimEnd(TrimStart(s))

DigitChars == <<"0", "1", "2", "3", "4", "5", "6", "7", "8", "9">>

RECURSIVE Digits(_)
Digits(n) ==
    IF n < 10
    THEN <<DigitChars[n + 1]>>
    ELSE Digits(n \div 10) \o <<DigitChars[(n % 10) + 1]>>

\* Number.prototype.toString() of an integer.
NumberToString(n) == IF n < 0 THEN <<"-">> \o Digits(0 - n) ELSE Digits(n)

\* A CorrectAnswers token of the JSON payload is a number or a string.
NumToken(n) == [t |-> "num", n |-> n, s |-> <<>>]

StrToken(s) == [t |-> "str", n |-> 0, s |-> s]

\* String(token)
StringMutNoNumbers(tok) == tok.s

String(tok) == IF tok.t = "num" THEN NumberToString(tok.n) ELSE tok.s

\* ------------------------------------------------------------------------
\* getPractiseLectureQuestionsInfo  (extractQuestionInfos)
\* ------------------------------------------------------------------------
\* The outcome of an extraction: err is TRUE when it threw, val is the value
\* it returned, warns counts the console.warn diagnostics it emitted before
\* it ended, message is the text of the Error it threw.
Fatal(w) == [err |-> TRUE, val |-> <<>>, warns |-> w, message |-> <<"Parse Error">>]

Ok(v, w) == [err |-> FALSE, val |-> v, warns |-> w, message |-> <<>>]

WithQuestionIDMutAnonymous(outcome, questionId) == outcome

\* new Error("... Question ID: " + questionId)
WithQuestionID(outcome, questionId) ==
    [outcome EXCEPT !.message = @ \o <<"Question ID: ">> \o questionId]

CompareQuestionIDMutLexical(a, b) ==
    IF NumberToString(a.QuestionID)[1] = NumberToString(b.QuestionID)[1]
    THEN a.QuestionID - b.QuestionID
    ELSE IF IndexOf(DigitChars, NumberToString(a.QuestionID)[1])
              < IndexOf(DigitChars, NumberToString(b.QuestionID)[1])
         THEN 0 - 1 ELSE 1

\* (a, b) => a.QuestionID - b.QuestionID
CompareQuestionID(a, b) == a.QuestionID - b.QuestionID

\* Array.prototype.sort with that comparator: a stable sort.
RECURSIVE InsertSorted(_, _)
InsertSorted(s, x) ==
    IF s = <<>> THEN <<x>>
    ELSE IF CompareQuestionID(Last(s), x) <= 0
         THEN s \o <<x>>
         ELSE InsertSorted(Front(s), x) \o <<Last(s)>>

RECURSIVE SortByQuestionID(_)
SortByQuestionID(s) ==
    IF s = <<>> THEN <<>> ELSE InsertSorted(SortByQuestionID(Front(s)), Last(s))

MapCorrectAnswers(tokens) == [i \in 1..Len(tokens) |-> String(tokens[i])]

ToQuestionInfo(rawQuestion) ==
    [id |-> NumberToString(rawQuestion.QuestionID),
     code |-> rawQuestion.Code,
     correctAnswers |-> MapCorrectAnswers(rawQuestion.CorrectAnswers)]

\* json is the payload of getSamplePractiseLectureTest: json.Questions is an
\* optional array.
getPractiseLectureQuestionsInfo(json) ==
    IF ~IsDefined(json.Questions)
    THEN Fatal(0)
    ELSE Ok([i \in 1..Len(Get(json.Questions)) |->
                ToQuestionInfo(SortByQuestionID(Get(json.Questions))[i])], 0)

\* ------------------------------------------------------------------------
\* Item failures: warnOnNonFatalParseErrors / errorOnNonFatalParseErrors
\* ------------------------------------------------------------------------
defaultDataProcessorOptions ==
    [warnOnNonFatalParseErrors |-> TRUE, errorOnNonFatalParseErrors |-> FALSE]

\* What one iteration of an extraction loop does with its element.
Push(x) == [kind |-> "push", item |-> <<x>>]

ItemFail == [kind |-> "fail", item |-> <<>>]

Throw == [kind |-> "throw", item |-> <<>>]

Ignore == [kind |-> "ignore", item |-> <<>>]

NonFatalParseErrorMutThrowFirst(acc, options) ==
    IF options.errorOnNonFatalParseErrors
    THEN Fatal(acc.warns)
    ELSE [acc EXCEPT !.warns = @ + (IF options.warnOnNonFatalParseErrors THEN 1 ELSE 0)]

\* if (warn) console.warn(...); if (error) throw new Error(...); continue;
NonFatalParseError(acc, options) ==
    IF options.errorOnNonFatalParseErrors
    THEN Fatal(acc.warns + (IF options.warnOnNonFatalParseErrors THEN 1 ELSE 0))
    ELSE [acc EXCEPT !.warns = @ + (IF options.warnOnNonFatalParseErrors THEN 1 ELSE 0)]

LoopStep(acc, o, options) ==
    IF acc.err THEN acc
    ELSE CASE o.kind = "push" -> [acc EXCEPT !.val = Append(@, o.item[1])]
           [] o.kind = "fail" -> NonFatalParseError(acc, options)
           [] o.kind = "throw" -> Fatal(acc.warns)
           [] OTHER -> acc

RECURSIVE RunLoop(_, _)
RunLoop(outs, options) ==
    IF outs = <<>> THEN Ok(<<>>, 0)
    ELSE LoopStep(RunLoop(Front(outs), options), Last(outs), options)

\* ------------------------------------------------------------------------
\* getThematicUnits  (extractThematicUnits)
\* ------------------------------------------------------------------------
\* onClick.split("'")[1]?.replace("/", "")
UnitUrl(onClick) ==
    IF Len(Split(onClick, "'")) >= 2
    THEN Some(ReplaceFirst(Split(onClick, "'")[2], "/"))
    ELSE Undefined

UnitIdMutFirstSegment(url) ==
    IF IsDefined(url) /\ Get(url) # <<>>
    THEN Some(Split(Get(url), "/")[1])
    ELSE Undefined

\* url ? url.split("/")[url.split("/").length - 1] : undefined
UnitId(url) ==
    IF IsDefined(url) /\ Get(url) # <<>>
    THEN Some(Last(Split(Get(url), "/")))
    ELSE Undefined

\* image.getAttribute("src")?.replace("/", "")
ImageLink(image) ==
    IF IsDefined(image.src) THEN Some(ReplaceFirst(Get(image.src), "/")) ELSE Undefined

ButtonOutcome(button) ==
    IF \/ ~IsDefined(button.title) \/ ~IsDefined(button.onclick)
       \/ ~IsDefined(button.text) \/ ~IsDefined(button.image)
    THEN ItemFail
    ELSE IF \/ ~IsDefined(UnitUrl(Get(button.onclick)))
            \/ ~IsDefined(UnitId(UnitUrl(Get(button.onclick))))
    THEN ItemFail
    ELSE IF ~IsDefined(ImageLink(Get(button.image)))
    THEN ItemFail
    ELSE Push([name |-> Get(button.title),
               url |-> Get(UnitUrl(Get(button.onclick))),
               id |-> Get(UnitId(UnitUrl(Get(button.onclick)))),
               description |-> Get(button.text),
               imageLink |-> Get(ImageLink(Get(button.image)))])

\* html.buttonPanel: the .Button elements of the .ButtonPanel, if there is one.
getThematicUnits(html, options) ==
    IF ~IsDefined(html.buttonPanel)
    THEN Fatal(0)
    ELSE RunLoop([i \in 1..Len(Get(html.buttonPanel)) |->
                    ButtonOutcome(Get(html.buttonPanel)[i])], options)

\* ------------------------------------------------------------------------
\* getPractiseLecutures  (extractPractiseLectures)
\* ------------------------------------------------------------------------
LecturePrefix == <<"/", "Test", "/", "TestPractise", "/">>

IsLectureLinkMutAnyHref(a) == IsDefined(a.href)

\* a.getAttribute("href")?.startsWith("/Test/TestPractise/")
IsLectureLink(a) == IsDefined(a.href) /\ StartsWith(Get(a.href), LecturePrefix)

\* The id is read as url.split("/")[url.split("/").length - 1]; url, id and
\* title are never undefined for a link that passed the filter.
LinkOutcome(link) ==
    Push([url |-> ReplaceFirst(Get(link.href), "/"),
          id |-> Last(Split(ReplaceFirst(Get(link.href), "/"), "/")),
          name |-> link.text])

\* html.verticalMenuPanel: the a elements of #VerticalMenuPanel, if there is one.
getPractiseLecutures(html, options) ==
    IF ~IsDefined(html.verticalMenuPanel)
    THEN Fatal(0)
    ELSE RunLoop([i \in 1..Len(SelectSeq(Get(html.verticalMenuPanel), IsLectureLink)) |->
                    LinkOutcome(SelectSeq(Get(html.verticalMenuPanel), IsLectureLink)[i])],
                 options)

\* ------------------------------------------------------------------------
\* getQuestion  (extractQuestion)
\* ------------------------------------------------------------------------
\* tagName is upper case in the parser; the code compares its lower case.
ToLocaleLowerCase(tagName) ==
    CASE tagName = "P" -> "p"
      [] tagName = "IMG" -> "img"
      [] tagName = "VIDEO" -> "video"
      [] tagName = "DIV" -> "div"
      [] tagName = "A" -> "a"
      [] tagName = "SPAN" -> "span"
      [] OTHER -> tagName

isHTMLElement(node) == node.nodeType = "element"

\* root.querySelectorAll(".question-text"): the elements of that class
\* before the frame, then those among the frame's children.
HasQuestionTextClass(node) == isHTMLElement(node) /\ "question-text" \in node.classNames

QuestionTexts(html) ==
    SelectSeq(html.before, HasQuestionTextClass)
        \o (IF IsDefined(html.imageFrame)
            THEN SelectSeq(Get(html.imageFrame), HasQuestionTextClass)
            ELSE <<>>)

TextOutcome(questionText) ==
    IF ToLocaleLowerCase(questionText.tagName) = "p"
    THEN Push(questionText.structuredText)
    ELSE ItemFail

ImgOutcome(node) ==
    IF ~IsDefined(node.src)
    THEN ItemFail
    ELSE Push([type |-> "image", imageLink |-> Get(node.src),
               format |-> <<>>, description |-> <<>>])

VideoOutcomeMutNoFormat(node) ==
    IF ~IsDefined(node.source) THEN ItemFail
    ELSE Push([type |-> "video", imageLink |-> <<>>, format |-> <<>>, description |-> <<>>])

\* A resource is held as one record shape for the three kinds: imageLink is
\* the link (videoLink for a video), format and description are empty where
\* the kind has none.
VideoOutcome(node) ==
    IF ~IsDefined(node.source)
    THEN ItemFail
    ELSE IF ~IsDefined(Get(node.source).src) \/ ~IsDefined(Get(node.source).type)
    THEN ItemFail
    ELSE Push([type |-> "video", imageLink |-> Get(Get(node.source).src),
               format |-> Get(Get(node.source).type), description |-> <<>>])

IsImageWithDescription(node) ==
    /\ Len(SelectSeq(node.childNodes, isHTMLElement)) = 2
    /\ ToLocaleLowerCase(SelectSeq(node.childNodes, isHTMLElement)[1].tagName) = "img"
    /\ ToLocaleLowerCase(SelectSeq(node.childNodes, isHTMLElement)[2].tagName) = "a"

DivOutcome(node) ==
    IF ~IsDefined(SelectSeq(node.childNodes, isHTMLElement)[1].src)
    THEN ItemFail
    ELSE Push([type |-> "imageWithDescription",
               imageLink |-> Get(SelectSeq(node.childNodes, isHTMLElement)[1].src),
               format |-> <<>>,
               description |-> SelectSeq(node.childNodes, isHTMLElement)[2].structuredText])

ResourceOutcomeMutSilent(resourceHTML) ==
    IF ~isHTMLElement(resourceHTML) THEN Ignore
    ELSE IF "question-text" \in resourceHTML.classNames THEN Ignore
    ELSE IF ToLocaleLowerCase(resourceHTML.tagName) = "img" THEN ImgOutcome(resourceHTML)
    ELSE IF ToLocaleLowerCase(resourceHTML.tagName) = "video" THEN VideoOutcome(resourceHTML)
    ELSE IF ToLocaleLowerCase(resourceHTML.tagName) = "div" /\ IsImageWithDescription(resourceHTML)
    THEN DivOutcome(resourceHTML)
    ELSE Ignore

ResourceOutcome(resourceHTML) ==
    IF ~isHTMLElement(resourceHTML) THEN Ignore
    ELSE IF "question-text" \in resourceHTML.classNames THEN Ignore
    ELSE IF ToLocaleLowerCase(resourceHTML.tagName) = "img" THEN ImgOutcome(resourceHTML)
    ELSE IF ToLocaleLowerCase(resourceHTML.tagName) = "video" THEN VideoOutcome(resourceHTML)
    ELSE IF ToLocaleLowerCase(resourceHTML.tagName) = "div" /\ IsImageWithDescription(resourceHTML)
    THEN DivOutcome(resourceHTML)
    ELSE ItemFail

AnswerOutcomeMutSkip(answerHTML) ==
    IF ~IsDefined(answerHTML.answerid) \/ ~IsDefined(answerHTML.checkbox)
       \/ ~IsDefined(answerHTML.p)
    THEN ItemFail
    ELSE Push([id |-> Get(answerHTML.answerid),
               marker |-> Trim(Get(answerHTML.checkbox)),
               text |-> Trim(Get(answerHTML.p))])

AnswerOutcome(answerHTML) ==
    IF ~IsDefined(answerHTML.answerid) THEN Throw
    ELSE IF ~IsDefined(answerHTML.checkbox) THEN Throw
    ELSE IF ~IsDefined(answerHTML.p) THEN Throw
    ELSE Push([id |-> Get(answerHTML.answerid),
               marker |-> Trim(Get(answerHTML.checkbox)),
               text |-> Trim(Get(answerHTML.p))])

NonEmpty(text) == Len(text) > 0

\* texts.map((text) => text.trim()).filter((text) => text.length > 0)
TrimTexts(texts) == SelectSeq([i \in 1..Len(texts) |-> Trim(texts[i])], NonEmpty)

TextsOf(html, options) ==
    RunLoop([i \in 1..Len(QuestionTexts(html)) |-> TextOutcome(QuestionTexts(html)[i])],
            options)

ResourcesOf(html, options) ==
    RunLoop([i \in 1..Len(Get(html.imageFrame)) |-> ResourceOutcome(Get(html.imageFrame)[i])],
            options)

AnswersOf(html, options) ==
    RunLoop([i \in 1..Len(html.answers) |-> AnswerOutcome(html.answers[i])], options)

\* html is the page fetcher.getQuestion(questionId) returned.  The frame
\* that querySelector did not find is null, so it is the test of
\* resourcesHTML that throws.
getQuestion(questionId, html, options) ==
    IF TextsOf(html, options).err
    THEN Fatal(TextsOf(html, options).warns)
    ELSE IF ~IsDefined(html.imageFrame)
    THEN WithQuestionID(Fatal(TextsOf(html, options).warns), questionId)
    ELSE IF ResourcesOf(html, options).err
    THEN Fatal(TextsOf(html, options).warns + ResourcesOf(html, options).warns)
    ELSE IF AnswersOf(html, options).err
    THEN WithQuestionID(Fatal(TextsOf(html, options).warns + ResourcesOf(html, options).warns),
                        questionId)
    ELSE Ok([answers |-> AnswersOf(html, options).val,
             resources |-> ResourcesOf(html, options).val,
             texts |-> TrimTexts(TextsOf(html, options).val)],
            TextsOf(html, options).warns + ResourcesOf(html, options).warns)

\* ------------------------------------------------------------------------
\* The remote site: what the server answers to the fetcher's four requests
\* ------------------------------------------------------------------------
Element(tagName, classNames, src, source, childNodes, structuredText) ==
    [nodeType |-> "element", tagName |-> tagName, classNames |-> classNames,
     src |-> src, source |-> source, childNodes |-> childNodes,
     structuredText |-> structuredText]

TextNode(text) ==
    [nodeType |-> "text", tagName |-> "", classNames |-> {},
     src |-> Undefined, source |-> Undefined, childNodes |-> <<>>,
     structuredText |-> text]

AnswerElement(answerid, checkbox, p) == [answerid |-> answerid, checkbox |-> checkbox, p |-> p]

UnitButton(name, id) ==
    [title |-> Some(<<name>>),
     onclick |-> Some(<<"location.href=", "'", "/", "Home", "/", "Tests", "/", id, "'">>),
     text |-> Some(<<"about", " ", name>>),
     image |-> Some([src |-> Some(<<"/", "Content", "/", id, ".png">>)])]

ButtonWithoutTitle(id) == [UnitButton("x", id) EXCEPT !.title = Undefined]

Anchor(href, text) == [href |-> href, text |-> text]

LectureAnchor(id) ==
    Anchor(Some(<<"/", "Test", "/", "TestPractise", "/", id>>), <<"Lecture", " ", id>>)

RawQuestion(QuestionID, Code, CorrectAnswers) ==
    [QuestionID |-> QuestionID, Code |-> Code, CorrectAnswers |-> CorrectAnswers]

TwoAnswers ==
    <<AnswerElement(Some(<<"101">>), Some(<<" ", "A", " ">>), Some(<<"yes">>)),
      AnswerElement(Some(<<"102">>), Some(<<"B">>), Some(<<"no", " ">>))>>

QuestionPage5 ==
    [before |-> <<>>,
     imageFrame |-> Some(<<
        Element("P", {"question-text"}, Undefined, Undefined, <<>>, <<" ", "Who", " ", "goes", " ">>),
        TextNode(<<" ">>),
        Element("IMG", {}, Some(<<"/", "img", "/", "5.png">>), Undefined, <<>>, <<>>)>>),
     answers |-> TwoAnswers]

QuestionPage12 ==
    [before |-> <<Element("SPAN", {"question-text"}, Undefined, Undefined, <<>>, <<"note">>)>>,
     imageFrame |-> Some(<<
        Element("P", {"question-text"}, Undefined, Undefined, <<>>, <<"Which", " ", "sign">>),
        Element("VIDEO", {}, Undefined,
                Some([src |-> Some(<<"/", "v", "/", "12.mp4">>), type |-> Some(<<"video", "/", "mp4">>)]),
                <<>>, <<>>),
        Element("SPAN", {}, Undefined, Undefined, <<>>, <<"?">>)>>),
     answers |-> TwoAnswers]

QuestionPage7 ==
    [before |-> <<>>,
     imageFrame |-> Some(<<
        Element("P", {"question-text"}, Undefined, Undefined, <<>>, <<" ">>),
        Element("DIV", {}, Undefined, Undefined,
                <<Element("IMG", {}, Some(<<"/", "img", "/", "7.png">>), Undefined, <<>>, <<>>),
                  TextNode(<<" ">>),
                  Element("A", {}, Undefined, Undefined, <<>>, <<"source">>)>>,
                <<>>)>>),
     answers |-> <<AnswerElement(Some(<<"201">>), Some(<<"A">>), Some(<<"left">>))>>]

QuestionPage3 ==
    [before |-> <<>>,
     imageFrame |-> Some(<<
        Element("P", {"question-text"}, Undefined, Undefined, <<>>, <<"Speed", " ", "limit">>)>>),
     answers |-> TwoAnswers]

\* The site as it answers when every page has the expected shape.
SiteGood ==
    [home |-> [buttonPanel |->
                 Some(<<UnitButton("Rules", "ro"), ButtonWithoutTitle("xx"), UnitButton("Signs", "zz")>>)],
     units |-> (<<"ro">> :> [verticalMenuPanel |->
                               Some(<<Anchor(Some(<<"/", "Home">>), <<"Home">>),
                                      LectureAnchor("24"),
                                      Anchor(Undefined, <<"top">>),
                                      LectureAnchor("25")>>)])
            @@ (<<"zz">> :> [verticalMenuPanel |-> Some(<<LectureAnchor("30")>>)]),
     lectures |-> (<<"24">> :> [Questions |-> Some(<<
                        RawQuestion(12, <<"A2">>, <<NumToken(1)>>),
                        RawQuestion(5, <<"A1">>, <<StrToken(<<"b">>), StrToken(<<"c">>)>>)>>)])
               @@ (<<"25">> :> [Questions |-> Some(<<
                        RawQuestion(12, <<"A2">>, <<NumToken(1)>>),
                        RawQuestion(7, <<"A1">>, <<NumToken(2)>>)>>)])
               @@ (<<"30">> :> [Questions |-> Some(<<
                        RawQuestion(3, <<"A3">>, <<NumToken(1), NumToken(12)>>)>>)]),
     questions |-> (<<"5">> :> QuestionPage5) @@ (<<"1", "2">> :> QuestionPage12)
                @@ (<<"7">> :> QuestionPage7) @@ (<<"3">> :> QuestionPage3)]

\* The same site after a change of layout that removes one required container
\* or answer field: a structural error at one level of the walk each.
SiteNoButtonPanel == [SiteGood EXCEPT !.home = [buttonPanel |-> Undefined]]

SiteNoMenu == [SiteGood EXCEPT !.units[<<"zz">>] = [verticalMenuPanel |-> Undefined]]

SiteNoQuestions == [SiteGood EXCEPT !.lectures[<<"25">>] = [Questions |-> Undefined]]

SiteBadAnswer ==
    [SiteGood EXCEPT !.questions[<<"1", "2">>] =
        [QuestionPage12 EXCEPT !.answers =
            <<AnswerElement(Undefined, Some(<<"A">>), Some(<<"yes">>))>>]]

SiteNoFrame ==
    [SiteGood EXCEPT !.questions[<<"3">>] = [QuestionPage3 EXCEPT !.imageFrame = Undefined]]

Sites == {SiteGood, SiteNoButtonPanel, SiteNoMenu, SiteNoQuestions, SiteBadAnswer, SiteNoFrame}

\* ------------------------------------------------------------------------
\* output.json and the questions object of main
\* ------------------------------------------------------------------------
\* The questions object: its own properties in insertion order.
Property(key, value) == [key |-> key, value |-> value]

HasKey(obj, key) == \E i \in 1..Len(obj) : obj[i].key = key

Lookup(obj, key) == obj[CHOOSE i \in 1..Len(obj) : obj[i].key = key].value

\* obj[key] = value
SetProperty(obj, key, value) ==
    IF HasKey(obj, key)
    THEN [i \in 1..Len(obj) |-> IF obj[i].key = key THEN Property(key, value) ELSE obj[i]]
    ELSE Append(obj, Property(key, value))

\* The file: absent, not JSON, or the text of a JSON object, a list of
\* "key": value members.
NoFile == [kind |-> "none", members |-> <<>>]

NotJson == [kind |-> "garbage", members |-> <<>>]

JsonFile(members) == [kind |-> "json", members |-> members]

JSONstringifyMutDropLast(obj) ==
    JsonFile([i \in 1..(IF Len(obj) > 0 THEN Len(obj) - 1 ELSE 0) |-> <<obj[i].key, obj[i].value>>])

\* JSON.stringify(questions, null, 4)
JSONstringify(obj) == JsonFile([i \in 1..Len(obj) |-> <<obj[i].key, obj[i].value>>])

\* JSON.parse(text): a repeated member overwrites the earlier value.
RECURSIVE JSONparse(_)
JSONparse(members) ==
    IF members = <<>> THEN <<>>
    ELSE SetProperty(JSONparse(Front(members)), Last(members)[1], Last(members)[2])

\* if (questions[questionInfo.code]): every stored value is an object, so the
\* test is true exactly for the keys of the object (no code is taken to be
\* the name of a property of Object.prototype).
AlreadyLoadedMutNever(obj, code) == FALSE

AlreadyLoaded(obj, code) == HasKey(obj, code)

MergeMutNoCorrectAnswers(questionInfo, question) ==
    [correctAnswers |-> <<>>, answers |-> question.answers,
     resources |-> question.resources, texts |-> question.texts]

\* { correctAnswers: questionInfo.correctAnswers, ...question }
Merge(questionInfo, question) ==
    [correctAnswers |-> questionInfo.correctAnswers, answers |-> question.answers,
     resources |-> question.resources, texts |-> question.texts]

\* A record stored by an earlier run against an earlier state of the site.
StoredRecord(text) ==
    [correctAnswers |-> <<<<"z">>>>, answers |-> <<>>, resources |-> <<>>,
     texts |-> <<<<text>>>>]

Files ==
    {NoFile, NotJson, JsonFile(<<>>),
     JsonFile(<<<< <<"A1">>, StoredRecord("old1") >>>>),
     JsonFile(<<<< <<"A9">>, StoredRecord("old9") >>, << <<"A2">>, StoredRecord("old2") >>>>)}

\* ------------------------------------------------------------------------
\* The crawl: main of index.ts, rerun by the operator after it ends
\* ------------------------------------------------------------------------
VARIABLES
    site,             \* what the server answers
    disk,             \* ./output.json
    run,              \* number of the current invocation of main
    pc,               \* position of main
    cause,            \* why main was rejected: "transport", "structural", "load"
    thematicUnits,    \* locals of main
    practiseLectures,
    questionsInfo,
    questions,
    ui, li, qi,       \* positions of the three loops (qi is i + 1)
    calls,            \* the fetcher calls of this run, in order
    outstanding,      \* fetcher calls issued and not yet settled
    writes,           \* writes of ./output.json in this run
    disk0,            \* ./output.json when this run started
    walk,             \* the QuestionInfos this run has processed, in order
    prevEnd,          \* how the previous run ended: "none", "done", "aborted"
    prevFetched,      \* codes whose detail the previous run fetched
    options,          \* the options the DataProcessor was constructed with
    json,             \* the payload handed to an extraction called on its own
    result,           \* what that extraction returned
    stage             \* "crawl", or "input" / "output" of that extraction

vars ==
    <<site, disk, run, pc, cause, thematicUnits, practiseLectures, questionsInfo,
      questions, ui, li, qi, calls, outstanding, writes, disk0, walk, prevEnd,
      prevFetched, options, json, result, stage>>

locals == <<thematicUnits, practiseLectures, questionsInfo, questions, ui, li, qi>>

history == <<run, disk0, prevEnd, prevFetched>>

extraction == <<options, json, result, stage>>

\* A fetcher call; at is the number of QuestionInfos main had processed when
\* it issued the call.
Call(op, arg, at) == [op |-> op, arg |-> arg, at |-> at, failed |-> FALSE]

\* for (...) loop head: no element is left.
LoopDoneMutEarly(index, list) == index >= Len(list)

LoopDone(index, list) == index > Len(list)

\* A rejected promise is caught nowhere: main ends at its first rejection.
RejectedMutRetry(at) ==
    CASE at = "awaitHomePage" -> "main"
      [] at = "awaitUnitPage" -> "forUnit"
      [] at = "awaitLectureTest" -> "forLecture"
      [] at = "awaitQuestion" -> "forQuestion"
      [] OTHER -> "aborted"

Rejected(at) == "aborted"

\* main().then(...) has no rejection handler and main no finally: nothing is
\* saved when it is rejected.
UnwindMutSave(file, obj) == JSONstringify(obj)

Unwind(file, obj) == file

FetchedCodes(w) == {w[k].info.code : k \in {j \in 1..Len(w) : w[j].fetched}}

Init ==
    /\ site \in Sites
    /\ disk \in Files
    /\ run = 1
    /\ pc = "main"
    /\ cause = "none"
    /\ thematicUnits = <<>>
    /\ practiseLectures = <<>>
    /\ questionsInfo = <<>>
    /\ questions = <<>>
    /\ ui = 1 /\ li = 1 /\ qi = 1
    /\ calls = <<>>
    /\ outstanding = 0
    /\ writes = 0
    /\ disk0 = disk
    /\ walk = <<>>
    /\ prevEnd = "none"
    /\ prevFetched = {}
    /\ options = defaultDataProcessorOptions
    /\ json = [Questions |-> Undefined]
    /\ result = Fatal(0)
    /\ stage = "crawl"

\* A fetcher call is issued: axios.get / axios.post.
Issue(op, arg, next) ==
    /\ calls' = Append(calls, Call(op, arg, Len(walk)))
    /\ outstanding' = outstanding + 1
    /\ pc' = next
    /\ UNCHANGED <<site, disk, cause, locals, writes, walk, history, extraction>>

\* The awaited call fails with a transport error.
TransportError ==
    /\ calls' = [calls EXCEPT ![Len(calls)].failed = TRUE]
    /\ outstanding' = outstanding - 1
    /\ pc' = Rejected(pc)
    /\ cause' = "transport"
    /\ disk' = Unwind(disk, questions)
    /\ UNCHANGED <<site, locals, writes, walk, history, extraction>>

\* An extraction throws.
ParseError ==
    /\ outstanding' = outstanding - 1
    /\ pc' = "aborted"
    /\ cause' = "structural"
    /\ disk' = Unwind(disk, questions)
    /\ UNCHANGED <<site, locals, calls, writes, walk, history, extraction>>

\* index.ts:15  processor.getThematicUnits() -> fetcher.getHomePage()
CallGetThematicUnits ==
    /\ pc = "main"
    /\ Issue("getHomePage", <<>>, "awaitHomePage")

AwaitHomePage ==
    /\ pc = "awaitHomePage"
    /\ \/ TransportError
       \/ /\ getThematicUnits(site.home, defaultDataProcessorOptions).err
          /\ ParseError
       \/ /\ ~getThematicUnits(site.home, defaultDataProcessorOptions).err
          /\ thematicUnits' = getThematicUnits(site.home, defaultDataProcessorOptions).val
          /\ outstanding' = outstanding - 1
          /\ pc' = "readFile"
          /\ UNCHANGED <<site, disk, cause, practiseLectures, questionsInfo, questions,
                         ui, li, qi, calls, writes, walk, history, extraction>>

ReadFileMutStartEmpty ==
    /\ pc = "readFile"
    /\ questions' = IF disk.kind = "json" THEN JSONparse(disk.members) ELSE <<>>
    /\ ui' = 1
    /\ pc' = "forUnit"
    /\ UNCHANGED <<site, disk, cause, thematicUnits, practiseLectures, questionsInfo, li, qi,
                   calls, outstanding, writes, walk, history, extraction>>

\* index.ts:16  JSON.parse(await fs.readFile("./output.json", "utf-8"))
ReadFile ==
    /\ pc = "readFile"
    /\ IF disk.kind = "json"
       THEN /\ questions' = JSONparse(disk.members)
            /\ ui' = 1
            /\ pc' = "forUnit"
            /\ UNCHANGED <<disk, cause>>
       ELSE /\ pc' = "aborted"
            /\ cause' = "load"
            /\ disk' = Unwind(disk, questions)
            /\ UNCHANGED <<questions, ui>>
    /\ UNCHANGED <<site, thematicUnits, practiseLectures, questionsInfo, li, qi, calls,
                   outstanding, writes, walk, history, extraction>>

\* index.ts:18-20
ForThematicUnit ==
    /\ pc = "forUnit"
    /\ IF LoopDone(ui, thematicUnits)
       THEN /\ pc' = "writeFile"
            /\ UNCHANGED <<site, disk, cause, locals, calls, outstanding, writes, walk, history, extraction>>
       ELSE Issue("getThematicUnitPage", thematicUnits[ui].id, "awaitUnitPage")

AwaitUnitPage ==
    /\ pc = "awaitUnitPage"
    /\ \/ TransportError
       \/ /\ thematicUnits[ui].id \in DOMAIN site.units
          /\ getPractiseLecutures(site.units[thematicUnits[ui].id], defaultDataProcessorOptions).err
          /\ ParseError
       \/ /\ thematicUnits[ui].id \in DOMAIN site.units
          /\ ~getPractiseLecutures(site.units[thematicUnits[ui].id], defaultDataProcessorOptions).err
          /\ practiseLectures' =
                getPractiseLecutures(site.units[thematicUnits[ui].id], defaultDataProcessorOptions).val
          /\ li' = 1
          /\ outstanding' = outstanding - 1
          /\ pc' = "forLecture"
          /\ UNCHANGED <<site, disk, cause, thematicUnits, questionsInfo, questions, ui, qi,
                         calls, writes, walk, history, extraction>>

\* index.ts:22-24
ForPractiseLecture ==
    /\ pc = "forLecture"
    /\ IF LoopDone(li, practiseLectures)
       THEN /\ ui' = ui + 1
            /\ pc' = "forUnit"
            /\ UNCHANGED <<site, disk, cause, thematicUnits, practiseLectures, questionsInfo,
                           questions, li, qi, calls, outstanding, writes, walk, history, extraction>>
       ELSE Issue("getSamplePractiseLectureTest", practiseLectures[li].id, "awaitLectureTest")

AwaitLectureTest ==
    /\ pc = "awaitLectureTest"
    /\ \/ TransportError
       \/ /\ practiseLectures[li].id \in DOMAIN site.lectures
          /\ getPractiseLectureQuestionsInfo(site.lectures[practiseLectures[li].id]).err
          /\ ParseError
       \/ /\ practiseLectures[li].id \in DOMAIN site.lectures
          /\ ~getPractiseLectureQuestionsInfo(site.lectures[practiseLectures[li].id]).err
          /\ questionsInfo' =
                getPractiseLectureQuestionsInfo(site.lectures[practiseLectures[li].id]).val
          /\ qi' = 1
          /\ outstanding' = outstanding - 1
          /\ pc' = "forQuestion"
          /\ UNCHANGED <<site, disk, cause, thematicUnits, practiseLectures, questions, ui, li,
                         calls, writes, walk, history, extraction>>

\* index.ts:26-37
ForQuestionInfo ==
    /\ pc = "forQuestion"
    /\ IF LoopDone(qi, questionsInfo)
       THEN /\ li' = li + 1
            /\ pc' = "forLecture"
            /\ UNCHANGED <<site, disk, cause, thematicUnits, practiseLectures, questionsInfo,
                           questions, ui, qi, calls, outstanding, writes, walk, history, extraction>>
       ELSE IF AlreadyLoaded(questions, questionsInfo[qi].code)
       THEN /\ qi' = qi + 1
            /\ walk' = Append(walk, [info |-> questionsInfo[qi], fetched |-> FALSE])
            /\ UNCHANGED <<site, disk, pc, cause, thematicUnits, practiseLectures,
                           questionsInfo, questions, ui, li, calls, outstanding, writes,
                           history, extraction>>
       ELSE Issue("getQuestion", questionsInfo[qi].id, "awaitQuestion")

\* index.ts:37-41
AwaitQuestion ==
    /\ pc = "awaitQuestion"
    /\ \/ TransportError
       \/ /\ questionsInfo[qi].id \in DOMAIN site.questions
          /\ getQuestion(questionsInfo[qi].id, site.questions[questionsInfo[qi].id],
                      defaultDataProcessorOptions).err
          /\ ParseError
       \/ /\ questionsInfo[qi].id \in DOMAIN site.questions
          /\ ~getQuestion(questionsInfo[qi].id, site.questions[questionsInfo[qi].id],
                      defaultDataProcessorOptions).err
          /\ questions' =
                SetProperty(questions, questionsInfo[qi].code,
                    Merge(questionsInfo[qi],
                          getQuestion(questionsInfo[qi].id, site.questions[questionsInfo[qi].id],
                                      defaultDataProcessorOptions).val))
          /\ walk' = Append(walk, [info |-> questionsInfo[qi], fetched |-> TRUE])
          /\ qi' = qi + 1
          /\ outstanding' = outstanding - 1
          /\ pc' = "forQuestion"
          /\ UNCHANGED <<site, disk, cause, thematicUnits, practiseLectures, questionsInfo,
                         ui, li, calls, writes, history, extraction>>

\* index.ts:52  fs.writeFile("./output.json", JSON.stringify(questions, null, 4))
WriteFile ==
    /\ pc = "writeFile"
    /\ disk' = JSONstringify(questions)
    /\ writes' = writes + 1
    /\ pc' = "done"
    /\ UNCHANGED <<site, cause, locals, calls, outstanding, walk, history, extraction>>

\* The operator starts the program again after it has ended.
Restart ==
    /\ pc \in {"done", "aborted"}
    /\ run < MaxRuns
    /\ run' = run + 1
    /\ pc' = "main"
    /\ cause' = "none"
    /\ thematicUnits' = <<>>
    /\ practiseLectures' = <<>>
    /\ questionsInfo' = <<>>
    /\ questions' = <<>>
    /\ ui' = 1 /\ li' = 1 /\ qi' = 1
    /\ calls' = <<>>
    /\ outstanding' = 0
    /\ writes' = 0
    /\ disk0' = disk
    /\ walk' = <<>>
    /\ prevEnd' = pc
    /\ prevFetched' = FetchedCodes(walk)
    /\ UNCHANGED <<site, disk, extraction>>

Next ==
    \/ CallGetThematicUnits
    \/ AwaitHomePage
    \/ ReadFile
    \/ ForThematicUnit
    \/ AwaitUnitPage
    \/ ForPractiseLecture
    \/ AwaitLectureTest
    \/ ForQuestionInfo
    \/ AwaitQuestion
    \/ WriteFile
    \/ Restart

Spec == Init /\ [][Next]_vars

\* ------------------------------------------------------------------------
\* Definitions the properties are stated with
\* ------------------------------------------------------------------------
\* The mapping this run loaded, and the mapping now on disk.
M0 == JSONparse(disk0.members)

Written == JSONparse(disk.members)

\* The first QuestionInfo of the walk that carries the code.
FirstInfo(code) ==
    walk[CHOOSE k \in 1..Len(walk) :
            /\ walk[k].info.code = code
            /\ \A j \in 1..(k - 1) : walk[j].info.code # code].info

\* The Question getQuestion(id) returns on this site.
Detail(id) == getQuestion(id, site.questions[id], defaultDataProcessorOptions).val

\* What the site lists: units of the home page, lectures of a unit, infos of
\* a lecture.
ListedUnits == getThematicUnits(site.home, defaultDataProcessorOptions).val

ListedLectures(u) ==
    getPractiseLecutures(site.units[ListedUnits[u].id], defaultDataProcessorOptions).val

ListedInfos(u, l) ==
    getPractiseLectureQuestionsInfo(site.lectures[ListedLectures(u)[l].id]).val

RECURSIVE InfosInLectures(_, _)
InfosInLectures(u, l) ==
    IF l = 0 THEN 0 ELSE InfosInLectures(u, l - 1) + Len(ListedInfos(u, l))

RECURSIVE InfosInUnits(_)
InfosInUnits(u) ==
    IF u = 0 THEN 0
    ELSE InfosInUnits(u - 1) + InfosInLectures(u, Len(ListedLectures(u)))

RECURSIVE LecturesInUnits(_)
LecturesInUnits(u) ==
    IF u = 0 THEN 0 ELSE LecturesInUnits(u - 1) + Len(ListedLectures(u))

CallsOf(op) == {i \in 1..Len(calls) : calls[i].op = op}

\* The k of "calls[i] is the k-th call of op", and the last call of op before i.
Ordinal(i, op) == Cardinality({j \in CallsOf(op) : j <= i})

LastBefore(i, op) == CHOOSE j \in CallsOf(op) : j < i /\ \A m \in CallsOf(op) : m < i => m <= j

\* The number a decimal string denotes.
RECURSIVE ToNumber(_)
ToNumber(str) ==
    IF str = <<>> THEN 0
    ELSE 10 * ToNumber(Front(str)) + (IndexOf(DigitChars, Last(str)) - 1)

\* ------------------------------------------------------------------------
\* Properties of the crawl
\* ------------------------------------------------------------------------
\* C1: a QuestionInfo whose code is a key of the loaded mapping is never
\* fetched, and the mapping a completed run writes holds that code with the
\* record that was loaded, whatever the answer key now says.
C1_Resumability ==
    /\ \A k \in 1..Len(walk) : HasKey(M0, walk[k].info.code) => ~walk[k].fetched
    /\ pc = "awaitQuestion" => ~HasKey(M0, questionsInfo[qi].code)
    /\ pc = "done" =>
          \A k \in 1..Len(walk) :
             HasKey(M0, walk[k].info.code) =>
                /\ HasKey(Written, walk[k].info.code)
                /\ Lookup(Written, walk[k].info.code) = Lookup(M0, walk[k].info.code)

C1_Witness ==
    /\ pc = "done"
    /\ \E k \in 1..Len(walk) :
          /\ HasKey(M0, walk[k].info.code)
          /\ Lookup(M0, walk[k].info.code).correctAnswers # walk[k].info.correctAnswers
    /\ \E k \in 1..Len(walk) : walk[k].fetched

\* C2: after a completed run every code of the walk that was not loaded is
\* a key of the written mapping, and its record is the Question of
\* getQuestion(info.id) with info.correctAnswers attached, info being the
\* first QuestionInfo of the walk that carries the code.
C2_MergeCorrectness ==
    pc = "done" =>
       \A k \in 1..Len(walk) :
          ~HasKey(M0, walk[k].info.code) =>
             /\ HasKey(Written, walk[k].info.code)
             /\ Lookup(Written, walk[k].info.code) =
                   [correctAnswers |-> FirstInfo(walk[k].info.code).correctAnswers,
                    answers |-> Detail(FirstInfo(walk[k].info.code).id).answers,
                    resources |-> Detail(FirstInfo(walk[k].info.code).id).resources,
                    texts |-> Detail(FirstInfo(walk[k].info.code).id).texts]

C2_Witness ==
    /\ pc = "done"
    /\ \E k \in 1..Len(walk) :
          /\ walk[k].fetched
          /\ Len(walk[k].info.correctAnswers) = 2
          /\ Len(Lookup(Written, walk[k].info.code).answers) = 2
          /\ Len(Lookup(Written, walk[k].info.code).resources) = 1

\* C3 as stated: a run restarted after an aborted run does not invoke
\* getQuestion again for a code whose detail the aborted run had fetched.
C3_NoRefetchAfterAbort ==
    (run > 1 /\ prevEnd = "aborted") =>
       /\ \A k \in 1..Len(walk) : walk[k].fetched => walk[k].info.code \notin prevFetched
       /\ pc = "awaitQuestion" => questionsInfo[qi].code \notin prevFetched

\* C3 as amended: a run restarted after an aborted run skips exactly the
\* codes of the mapping on disk, which the aborted run left as it was: it
\* fetches no code that is a key of that mapping, and it fetches again, at
\* its first occurrence, every code whose detail the aborted run had fetched.
C3_RestartFetchesUnpersisted ==
    (run > 1 /\ prevEnd = "aborted") =>
       /\ \A k \in 1..Len(walk) :
             /\ walk[k].fetched => ~HasKey(M0, walk[k].info.code)
             /\ (/\ walk[k].info.code \in prevFetched
                 /\ \A j \in 1..(k - 1) : walk[j].info.code # walk[k].info.code)
                => walk[k].fetched
       /\ pc = "awaitQuestion" => ~HasKey(M0, questionsInfo[qi].code)
       /\ \A c \in prevFetched : ~HasKey(M0, c)

C3_Witness ==
    /\ run > 1
    /\ prevEnd = "aborted"
    /\ \E k \in 1..Len(walk) : walk[k].fetched /\ walk[k].info.code \in prevFetched
    /\ \E k \in 1..Len(walk) : ~walk[k].fetched /\ HasKey(M0, walk[k].info.code)

\* C4: a run that follows a completed run on the unchanged site, starting
\* from the mapping that run wrote, never invokes getQuestion, and when it
\* completes the mapping it writes is the mapping it loaded.
C4_Idempotent ==
    (run > 1 /\ prevEnd = "done") =>
       /\ CallsOf("getQuestion") = {}
       /\ \A k \in 1..Len(walk) : ~walk[k].fetched
       /\ pc = "done" => (disk = disk0 /\ Written = M0 /\ questions = M0)

C4_Witness ==
    /\ run > 1
    /\ prevEnd = "done"
    /\ prevFetched # {}
    /\ pc = "done"
    /\ writes = 1
    /\ Len(walk) > 1

\* C5: the output is written once per completed run, by the last step, as
\* the complete mapping, after every listed unit, lecture and QuestionInfo
\* has been processed; before that point the run has written nothing.
C5_WrittenOnceAtEnd ==
    /\ writes = (IF pc = "done" THEN 1 ELSE 0)
    /\ pc \notin {"done", "aborted"} => disk = disk0
    /\ pc = "done" =>
          /\ disk = JsonFile([i \in 1..Len(questions) |-> <<questions[i].key, questions[i].value>>])
          /\ Cardinality(CallsOf("getThematicUnitPage")) = Len(ListedUnits)
          /\ Cardinality(CallsOf("getSamplePractiseLectureTest")) = LecturesInUnits(Len(ListedUnits))
          /\ Len(walk) = InfosInUnits(Len(ListedUnits))
          /\ \A k \in 1..Len(walk) : HasKey(Written, walk[k].info.code)

C5_Witness ==
    /\ pc = "done"
    /\ writes = 1
    /\ Len(ListedUnits) = 2
    /\ Len(walk) = 5
    /\ disk # disk0

\* C6: a run that ends in a fatal error has written nothing: the file is
\* what it was when the run started, and no code fetched in the run is in it.
C6_AbortWritesNothing ==
    /\ pc = "aborted" =>
          /\ writes = 0
          /\ disk = disk0
          /\ \A k \in 1..Len(walk) : walk[k].fetched => ~HasKey(Written, walk[k].info.code)
    /\ prevEnd = "aborted" => \A c \in prevFetched : ~HasKey(M0, c)

C6_Witness ==
    /\ pc = "aborted"
    /\ cause = "structural"
    /\ disk0.kind = "json"
    /\ Len(disk0.members) > 0
    /\ \E k \in 1..Len(walk) : walk[k].fetched

\* C7: a fetcher call that failed is the last fetcher call of its run: it
\* is not issued again, nothing is issued after it, the run has ended and
\* has written nothing.
C7_TransportErrorAborts ==
    /\ \A i \in 1..Len(calls) :
          calls[i].failed =>
             /\ i = Len(calls)
             /\ pc = "aborted"
             /\ cause = "transport"
             /\ outstanding = 0
             /\ writes = 0
    /\ cause = "transport" => (calls # <<>> /\ Last(calls).failed)

C7_Witness ==
    /\ pc = "aborted"
    /\ cause = "transport"
    /\ Len(calls) >= 4
    /\ Last(calls).op = "getQuestion"
    /\ Last(calls).failed

\* C8: at most one fetcher call is outstanding; the k-th unit page fetched
\* is that of the k-th listed unit and is fetched when every QuestionInfo of
\* the earlier units has been processed; a lecture's answer key is fetched
\* in listing order when every QuestionInfo of the earlier lectures has been
\* processed; a question detail is fetched after the answer key of its
\* lecture and before the next one, for a QuestionInfo of that lecture, in
\* ascending numeric id.
C8_SequentialDepthFirst ==
    /\ outstanding \in {0, 1}
    /\ outstanding = 1 <=> pc \in {"awaitHomePage", "awaitUnitPage", "awaitLectureTest", "awaitQuestion"}
    /\ \A i \in 1..Len(calls) : calls[i].op = "getHomePage" <=> i = 1
    /\ \A i \in CallsOf("getThematicUnitPage") :
          /\ Ordinal(i, "getThematicUnitPage") <= Len(ListedUnits)
          /\ calls[i].arg = ListedUnits[Ordinal(i, "getThematicUnitPage")].id
          /\ calls[i].at = InfosInUnits(Ordinal(i, "getThematicUnitPage") - 1)
          /\ Cardinality({j \in CallsOf("getSamplePractiseLectureTest") : j < i})
                = LecturesInUnits(Ordinal(i, "getThematicUnitPage") - 1)
    /\ \A i \in CallsOf("getSamplePractiseLectureTest") :
          LET u == Ordinal(i, "getThematicUnitPage")
              l == Cardinality({j \in CallsOf("getSamplePractiseLectureTest") :
                                    LastBefore(i, "getThematicUnitPage") < j /\ j <= i})
          IN /\ u >= 1
             /\ l <= Len(ListedLectures(u))
             /\ calls[i].arg = ListedLectures(u)[l].id
             /\ calls[i].at = InfosInUnits(u - 1) + InfosInLectures(u, l - 1)
    /\ \A i \in CallsOf("getQuestion") :
          LET u == Ordinal(i, "getThematicUnitPage")
              k == LastBefore(i, "getSamplePractiseLectureTest")
              l == Cardinality({j \in CallsOf("getSamplePractiseLectureTest") :
                                    LastBefore(i, "getThematicUnitPage") < j /\ j <= i})
              n == calls[i].at - calls[k].at + 1
          IN /\ LastBefore(i, "getThematicUnitPage") < k
             /\ n \in 1..Len(ListedInfos(u, l))
             /\ calls[i].arg = ListedInfos(u, l)[n].id
             /\ \A j \in CallsOf("getQuestion") :
                   (k < j /\ j < i) => ToNumber(calls[j].arg) <= ToNumber(calls[i].arg)

C8_Witness ==
    /\ pc = "done"
    /\ Cardinality(CallsOf("getThematicUnitPage")) = 2
    /\ Cardinality(CallsOf("getSamplePractiseLectureTest")) = 3
    /\ \E i, j \in CallsOf("getQuestion") :
          /\ j = i + 1
          /\ ToNumber(calls[i].arg) = 5
          /\ ToNumber(calls[j].arg) = 12

\* ------------------------------------------------------------------------
\* getPractiseLectureQuestionsInfo called on its own
\* ------------------------------------------------------------------------
QuestionIDs == {3, 5, 12}

Codes == {<<"A1">>, <<"C">>}

CorrectAnswersLists == {<<NumToken(1), NumToken(2)>>, <<StrToken(<<"b">>)>>}

RawQuestions ==
    {RawQuestion(n, c, a) : n \in QuestionIDs, c \in Codes, a \in CorrectAnswersLists}

RawArrays == UNION {[1..n -> RawQuestions] : n \in 0..MaxQuestions}

Payloads == {[Questions |-> Undefined]} \cup {[Questions |-> Some(a)] : a \in RawArrays}

InitInfos ==
    /\ site = SiteGood
    /\ disk = NoFile
    /\ run = 1
    /\ pc = "none"
    /\ cause = "none"
    /\ thematicUnits = <<>>
    /\ practiseLectures = <<>>
    /\ questionsInfo = <<>>
    /\ questions = <<>>
    /\ ui = 1 /\ li = 1 /\ qi = 1
    /\ calls = <<>>
    /\ outstanding = 0
    /\ writes = 0
    /\ disk0 = NoFile
    /\ walk = <<>>
    /\ prevEnd = "none"
    /\ prevFetched = {}
    /\ options = defaultDataProcessorOptions
    /\ json \in Payloads
    /\ result = Fatal(0)
    /\ stage = "input"

ExtractQuestionInfos ==
    /\ stage = "input"
    /\ result' = getPractiseLectureQuestionsInfo(json)
    /\ stage' = "output"
    /\ UNCHANGED <<site, disk, run, pc, cause, locals, calls, outstanding, writes, disk0,
                   walk, prevEnd, prevFetched, options, json>>

NextInfos == ExtractQuestionInfos

SpecInfos == InitInfos /\ [][NextInfos]_vars

\* The arrays that hold the entries of a in another order.
Reorderings(a) ==
    {[i \in 1..Len(a) |-> a[f[i]]] :
        f \in {g \in [1..Len(a) -> 1..Len(a)] : \A i, j \in 1..Len(a) : g[i] = g[j] => i = j}}

Ascending(infos) ==
    \A i, j \in 1..Len(infos) : i < j => ToNumber(infos[i].id) <= ToNumber(infos[j].id)

\* A decimal string without sign or leading zero.
IsDecimal(str) ==
    /\ str # <<>>
    /\ \A i \in 1..Len(str) : IndexOf(DigitChars, str[i]) > 0
    /\ Len(str) > 1 => str[1] # "0"

\* C9 as stated: whatever the order of the entries of the Questions array,
\* the output is the same sequence, ascending by numeric QuestionID.
C9_SameForEveryPermutation ==
    (stage = "output" /\ ~result.err) =>
       /\ Ascending(result.val)
       /\ \A a \in Reorderings(Get(json.Questions)) :
             getPractiseLectureQuestionsInfo([Questions |-> Some(a)]).val = result.val

\* C9 as amended: the output is always ascending by numeric QuestionID, and
\* it is the same for every order of the entries when the entries that
\* share a QuestionID are equal (so when the QuestionIDs are distinct).
C9_SameForEveryPermutationOfDistinct ==
    (stage = "output" /\ ~result.err) =>
       /\ Ascending(result.val)
       /\ (\A i, j \in 1..Len(Get(json.Questions)) :
              Get(json.Questions)[i].QuestionID = Get(json.Questions)[j].QuestionID
                 => Get(json.Questions)[i] = Get(json.Questions)[j])
          => \A a \in Reorderings(Get(json.Questions)) :
                getPractiseLectureQuestionsInfo([Questions |-> Some(a)]).val = result.val

C9_Witness ==
    /\ stage = "output"
    /\ ~result.err
    /\ Len(Get(json.Questions)) = 3
    /\ Get(json.Questions)[1].QuestionID = 12
    /\ Get(json.Questions)[2].QuestionID = 5
    /\ Get(json.Questions)[3].QuestionID = 3
    /\ ToNumber(result.val[1].id) = 3
    /\ ToNumber(result.val[3].id) = 12

\* C10: the output holds one QuestionInfo per entry of the Questions array:
\* its id is the decimal string of the entry's QuestionID, its code the
\* entry's Code, its correctAnswers the entry's tokens in the same order,
\* a numeric token as its decimal string and a string token as it is.
C10_OneInfoPerEntry ==
    (stage = "output" /\ ~result.err) =>
       /\ Len(result.val) = Len(Get(json.Questions))
       /\ \E a \in Reorderings(Get(json.Questions)) :
             \A i \in 1..Len(a) :
                /\ IsDecimal(result.val[i].id)
                /\ ToNumber(result.val[i].id) = a[i].QuestionID
                /\ result.val[i].code = a[i].Code
                /\ Len(result.val[i].correctAnswers) = Len(a[i].CorrectAnswers)
                /\ \A t \in 1..Len(a[i].CorrectAnswers) :
                      IF a[i].CorrectAnswers[t].t = "num"
                      THEN /\ IsDecimal(result.val[i].correctAnswers[t])
                           /\ ToNumber(result.val[i].correctAnswers[t]) = a[i].CorrectAnswers[t].n
                      ELSE result.val[i].correctAnswers[t] = a[i].CorrectAnswers[t].s

C10_Witness ==
    /\ stage = "output"
    /\ json = [Questions |-> Some(<<RawQuestion(5, <<"C">>, <<NumToken(1), NumToken(2)>>)>>)]
    /\ result = Ok(<<[id |-> <<"5">>, code |-> <<"C">>, correctAnswers |-> <<<<"1">>, <<"2">>>>]>>, 0)

\* ------------------------------------------------------------------------
\* The three HTML extractions, each called on its own on one page
\* ------------------------------------------------------------------------
\* The longest list of buttons, anchors, frame children or answers of a page.
MaxNodes == 2

SeqsUpTo(S, n) == UNION {[1..k -> S] : k \in 0..n}

Options == [warnOnNonFatalParseErrors : BOOLEAN, errorOnNonFatalParseErrors : BOOLEAN]

\* A .Button whose onclick is location.href='target'.
ButtonTo(name, target) ==
    [UnitButton(name, "x") EXCEPT
        !.onclick = Some(<<"location.href=", "'">> \o target \o <<"'">>)]

Buttons ==
    {UnitButton("Rules", "ro"),
     UnitButton("Signs", "zz"),
     ButtonWithoutTitle("xx"),
     [UnitButton("Rules", "ro") EXCEPT !.onclick = Undefined],
     [UnitButton("Rules", "ro") EXCEPT !.onclick = Some(<<"go()">>)],
     [UnitButton("Rules", "ro") EXCEPT !.image = Some([src |-> Undefined])],
     ButtonTo("Root", <<"/">>),
     ButtonTo("Tests", <<"/", "Home", "/", "Tests", "/">>),
     ButtonTo("Bare", <<"ro">>)}

HomePages ==
    {[buttonPanel |-> Undefined]}
        \cup {[buttonPanel |-> Some(b)] : b \in SeqsUpTo(Buttons, MaxNodes)}

Anchors ==
    {LectureAnchor("24"),
     LectureAnchor("25"),
     Anchor(Some(<<"/", "Home">>), <<"Home">>),
     Anchor(Undefined, <<"top">>),
     Anchor(Some(LecturePrefix), <<"All">>),
     Anchor(Some(LecturePrefix \o <<"24", "/", "b">>), <<"Part", " ", "b">>),
     Anchor(Some(<<"Test", "/", "TestPractise", "/", "24">>), <<"Relative">>)}

UnitPages ==
    {[verticalMenuPanel |-> Undefined]}
        \cup {[verticalMenuPanel |-> Some(a)] : a \in SeqsUpTo(Anchors, MaxNodes)}

Source(src, type) == Some([src |-> src, type |-> type])

Video(source) == Element("VIDEO", {}, Undefined, source, <<>>, <<>>)

Img(src) == Element("IMG", {}, src, Undefined, <<>>, <<>>)

Div(childNodes) == Element("DIV", {}, Undefined, Undefined, childNodes, <<>>)

Mp4 == Some(<<"/", "v", "/", "1.mp4">>)

Png == Some(<<"/", "img", "/", "1.png">>)

Nodes ==
    {TextNode(<<" ">>),
     Element("P", {"question-text"}, Undefined, Undefined, <<>>, <<" ", "Who", " ">>),
     Element("SPAN", {"question-text"}, Undefined, Undefined, <<>>, <<"note">>),
     Element("SPAN", {}, Undefined, Undefined, <<>>, <<"?">>),
     Img(Png),
     Img(Undefined),
     Video(Source(Mp4, Some(<<"video", "/", "mp4">>))),
     Video(Undefined),
     Video(Source(Mp4, Undefined)),
     Video(Source(Undefined, Some(<<"video", "/", "mp4">>))),
     Video(Source(Mp4, Some(<<>>))),
     Div(<<Img(Png), TextNode(<<" ">>), Element("A", {}, Undefined, Undefined, <<>>, <<"source">>)>>),
     Div(<<Img(Undefined), Element("A", {}, Undefined, Undefined, <<>>, <<"source">>)>>),
     Div(<<Img(Png)>>)}

AnswerElements ==
    {AnswerElement(Some(<<"101">>), Some(<<" ", "A", " ">>), Some(<<"yes">>)),
     AnswerElement(Some(<<"102">>), Some(<<"B">>), Some(<<"no", " ">>)),
     AnswerElement(Undefined, Some(<<"A">>), Some(<<"yes">>)),
     AnswerElement(Some(<<"101">>), Undefined, Some(<<"yes">>)),
     AnswerElement(Some(<<"101">>), Some(<<"A">>), Undefined)}

\* Question pages that differ in their texts and frame, and question pages
\* that differ in their answers.
QuestionPages ==
    {[before |-> b, imageFrame |-> f, answers |-> TwoAnswers] :
        b \in {<<>>, <<Element("SPAN", {"question-text"}, Undefined, Undefined, <<>>, <<"note">>)>>},
        f \in {Undefined} \cup {Some(c) : c \in SeqsUpTo(Nodes, MaxNodes)}}
    \cup
    {[before |-> <<>>, imageFrame |-> f, answers |-> a] :
        f \in {Some(<<Img(Png)>>), Some(<<Img(Undefined)>>)},
        a \in SeqsUpTo(AnswerElements, MaxNodes)}

QuestionIds == {<<"5">>, <<"1", "2">>}

InitPages ==
    /\ site = SiteGood
    /\ disk = NoFile
    /\ run = 1
    /\ pc = "none"
    /\ cause = "none"
    /\ thematicUnits = <<>>
    /\ practiseLectures = <<>>
    /\ questionsInfo = <<>>
    /\ questions = <<>>
    /\ ui = 1 /\ li = 1 /\ qi = 1
    /\ calls = <<>>
    /\ outstanding = 0
    /\ writes = 0
    /\ disk0 = NoFile
    /\ walk = <<>>
    /\ prevEnd = "none"
    /\ prevFetched = {}
    /\ options \in Options
    /\ \/ \E html \in HomePages :
             json = [page |-> "home", questionId |-> <<>>, html |-> html]
       \/ \E html \in UnitPages :
             json = [page |-> "unit", questionId |-> <<>>, html |-> html]
       \/ \E html \in QuestionPages, questionId \in QuestionIds :
             json = [page |-> "question", questionId |-> questionId, html |-> html]
    /\ result = Fatal(0)
    /\ stage = "input"

Extract(outcome) ==
    /\ stage = "input"
    /\ result' = outcome
    /\ stage' = "output"
    /\ UNCHANGED <<site, disk, run, pc, cause, locals, calls, outstanding, writes, disk0,
                   walk, prevEnd, prevFetched, options, json>>

ExtractThematicUnits ==
    /\ json.page = "home"
    /\ Extract(getThematicUnits(json.html, options))

ExtractPractiseLectures ==
    /\ json.page = "unit"
    /\ Extract(getPractiseLecutures(json.html, options))

ExtractQuestion ==
    /\ json.page = "question"
    /\ Extract(getQuestion(json.questionId, json.html, options))

NextPages ==
    \/ ExtractThematicUnits
    \/ ExtractPractiseLectures
    \/ ExtractQuestion

SpecPages == InitPages /\ [][NextPages]_vars

\* ------------------------------------------------------------------------
\* Properties of getQuestion on one page
\* ------------------------------------------------------------------------
Returned(page) == stage = "output" /\ json.page = page /\ ~result.err

Thrown(page) == stage = "output" /\ json.page = page /\ result.err

\* The children of the frame that the resource loop classifies.
IsResourceChild(node) == node.nodeType = "element" /\ "question-text" \notin node.classNames

ResourceChildren(html) == SelectSeq(Get(html.imageFrame), IsResourceChild)

IsVideoWithSource(node) == IsResourceChild(node) /\ node.tagName = "VIDEO" /\ node.source # <<>>

IsVideoWithCompleteSource(node) ==
    /\ IsVideoWithSource(node)
    /\ node.source[1].src # <<>>
    /\ node.source[1].type # <<>>

IsVideoResource(resource) == resource.type = "video"

\* C11 as stated: every video child of the frame that has a nested source
\* yields exactly one video resource, and the format of a video resource is
\* never empty.
C11_VideoWithSourceYieldsVideo ==
    Returned("question") =>
       /\ Len(SelectSeq(result.val.resources, IsVideoResource))
            = Len(SelectSeq(Get(json.html.imageFrame), IsVideoWithSource))
       /\ \A i \in 1..Len(result.val.resources) :
             result.val.resources[i].type = "video" => result.val.resources[i].format # <<>>

\* C11 as amended: the video resources of a returned Question are, in order,
\* those of the video children whose nested source has both a src and a type
\* attribute, the link being the src and the format the type as written
\* (which may be the empty string); a video whose source lacks one of the
\* two yields no resource and is an item failure, which aborts the
\* extraction when errorOnNonFatalParseErrors is set.
C11_VideoWithCompleteSourceYieldsVideo ==
    /\ Returned("question") =>
          /\ Len(SelectSeq(result.val.resources, IsVideoResource))
               = Len(SelectSeq(Get(json.html.imageFrame), IsVideoWithCompleteSource))
          /\ \A i \in 1..Len(SelectSeq(result.val.resources, IsVideoResource)) :
                /\ SelectSeq(result.val.resources, IsVideoResource)[i].imageLink
                     = SelectSeq(Get(json.html.imageFrame), IsVideoWithCompleteSource)[i].source[1].src[1]
                /\ SelectSeq(result.val.resources, IsVideoResource)[i].format
                     = SelectSeq(Get(json.html.imageFrame), IsVideoWithCompleteSource)[i].source[1].type[1]
    /\ (stage = "output" /\ json.page = "question" /\ options.errorOnNonFatalParseErrors
          /\ json.html.imageFrame # <<>>)
       => ((\E i \in 1..Len(json.html.imageFrame[1]) :
               /\ IsVideoWithSource(json.html.imageFrame[1][i])
               /\ ~IsVideoWithCompleteSource(json.html.imageFrame[1][i]))
           => result.err)

C11_Witness ==
    /\ Returned("question")
    /\ json.html.imageFrame = Some(<<Video(Source(Mp4, Undefined)),
                                      Video(Source(Mp4, Some(<<"video", "/", "mp4">>)))>>)
    /\ Len(result.val.resources) = 1
    /\ result.val.resources[1].type = "video"
    /\ result.val.resources[1].format = <<"video", "/", "mp4">>

ElementChildren(node) == SelectSeq(node.childNodes, isHTMLElement)

\* The kind the claim gives to a child by its shape.
KindOf(node) ==
    CASE node.tagName = "IMG" -> "image"
      [] node.tagName = "VIDEO" -> "video"
      [] /\ node.tagName = "DIV"
         /\ Len(ElementChildren(node)) = 2
         /\ ElementChildren(node)[1].tagName = "IMG"
         /\ ElementChildren(node)[2].tagName = "A" -> "imageWithDescription"
      [] OTHER -> "none"

\* The link the resource of a child carries, if the page gives one.
LinkOf(node) ==
    CASE KindOf(node) = "image" -> node.src
      [] KindOf(node) = "video" ->
            IF node.source # <<>> /\ node.source[1].type # <<>> THEN node.source[1].src ELSE <<>>
      [] KindOf(node) = "imageWithDescription" -> ElementChildren(node)[1].src
      [] OTHER -> <<>>

YieldsResource(node) == IsResourceChild(node) /\ LinkOf(node) # <<>>

YieldsFailure(node) == IsResourceChild(node) /\ LinkOf(node) = <<>>

IsTextFailure(node) ==
    node.nodeType = "element" /\ "question-text" \in node.classNames /\ node.tagName # "P"

TextFailures(html) ==
    Len(SelectSeq(html.before, IsTextFailure))
        + (IF html.imageFrame = <<>> THEN 0
           ELSE Len(SelectSeq(html.imageFrame[1], IsTextFailure)))

\* C12: every element child of the frame without the question-text class is
\* either one resource or one item failure; the resources of a returned
\* Question are those of the children that yield one, in the order of the
\* children, each of the kind of its shape (image for img, video for video,
\* imageWithDescription for a div of an img then an a); a child of any
\* other shape is one item failure; text nodes and children of the
\* question-text class add neither a resource nor a resource failure.
C12_ClassificationTotalExclusive ==
    /\ Returned("question") =>
          /\ Len(result.val.resources)
               = Len(SelectSeq(Get(json.html.imageFrame), YieldsResource))
          /\ \A i \in 1..Len(result.val.resources) :
                /\ result.val.resources[i].type
                     = KindOf(SelectSeq(Get(json.html.imageFrame), YieldsResource)[i])
                /\ result.val.resources[i].imageLink
                     = LinkOf(SelectSeq(Get(json.html.imageFrame), YieldsResource)[i])[1]
          /\ Len(result.val.resources) + Len(SelectSeq(Get(json.html.imageFrame), YieldsFailure))
               = Len(ResourceChildren(json.html))
          /\ result.warns
               = IF options.warnOnNonFatalParseErrors
                 THEN TextFailures(json.html)
                        + Len(SelectSeq(Get(json.html.imageFrame), YieldsFailure))
                 ELSE 0
          /\ options.errorOnNonFatalParseErrors
                => Len(SelectSeq(Get(json.html.imageFrame), YieldsFailure)) = 0
    /\ (/\ stage = "output" /\ json.page = "question"
        /\ json.html.imageFrame # <<>>
        /\ options.errorOnNonFatalParseErrors
        /\ Len(SelectSeq(Get(json.html.imageFrame), YieldsFailure)) > 0)
       => result.err

C12_Witness ==
    /\ Returned("question")
    /\ options = defaultDataProcessorOptions
    /\ json.html.before = <<>>
    /\ json.html.imageFrame =
          Some(<<Div(<<Img(Png)>>),
                 Div(<<Img(Png), TextNode(<<" ">>),
                       Element("A", {}, Undefined, Undefined, <<>>, <<"source">>)>>)>>)
    /\ Len(result.val.resources) = 1
    /\ result.val.resources[1].type = "imageWithDescription"
    /\ result.val.resources[1].description = <<"source">>
    /\ result.warns = 1

\* The text s holds the text sub.
Contains(s, sub) ==
    \E i \in 1..(Len(s) - Len(sub) + 1) : SubSeq(s, i, i + Len(sub) - 1) = sub

\* C13 as stated: on a page without the resource frame the extraction
\* throws, whatever the two switches, an Error whose message holds the
\* question id, and returns no Question.
C13_NoFrameFatalNamingId ==
    (stage = "output" /\ json.page = "question" /\ json.html.imageFrame = <<>>) =>
       /\ result.err
       /\ result.val = <<>>
       /\ Contains(result.message, json.questionId)

\* C13 as amended: on a page without the resource frame the extraction
\* throws, whatever the two switches, and returns no Question; the message
\* of the Error holds the question id unless errorOnNonFatalParseErrors is
\* set and the page has a question-text element that is not a paragraph,
\* in which case the extraction has already thrown on that element, with a
\* message that does not hold the question id.
C13_NoFrameFatal ==
    (stage = "output" /\ json.page = "question" /\ json.html.imageFrame = <<>>) =>
       /\ result.err
       /\ result.val = <<>>
       /\ Contains(result.message, json.questionId)
            <=> ~(options.errorOnNonFatalParseErrors /\ TextFailures(json.html) > 0)

C13_Witness ==
    /\ Thrown("question")
    /\ json.html.imageFrame = <<>>
    /\ json.html.before # <<>>
    /\ json.questionId = <<"1", "2">>
    /\ options = [warnOnNonFatalParseErrors |-> FALSE, errorOnNonFatalParseErrors |-> FALSE]
    /\ result.message = <<"Parse Error", "Question ID: ", "1", "2">>

IsIncompleteAnswer(answerHTML) ==
    answerHTML.answerid = <<>> \/ answerHTML.checkbox = <<>> \/ answerHTML.p = <<>>

\* C14: a page with an answer element that lacks the data-answerid
\* attribute, the .answer-checkbox element or the paragraph makes the
\* extraction throw under each of the four settings of the two switches; a
\* returned Question has one answer per answer element of the page, in
\* document order, with the element's id, trimmed marker and trimmed text.
C14_IncompleteAnswerFatal ==
    /\ (/\ stage = "output" /\ json.page = "question"
        /\ \E i \in 1..Len(json.html.answers) : IsIncompleteAnswer(json.html.answers[i]))
       => (result.err /\ result.val = <<>>)
    /\ Returned("question") =>
          /\ Len(result.val.answers) = Len(json.html.answers)
          /\ \A i \in 1..Len(json.html.answers) :
                /\ result.val.answers[i].id = json.html.answers[i].answerid[1]
                /\ result.val.answers[i].marker = Trim(json.html.answers[i].checkbox[1])
                /\ result.val.answers[i].text = Trim(json.html.answers[i].p[1])

C14_Witness ==
    /\ Thrown("question")
    /\ options = [warnOnNonFatalParseErrors |-> FALSE, errorOnNonFatalParseErrors |-> FALSE]
    /\ json.html.imageFrame = Some(<<Img(Png)>>)
    /\ json.html.answers =
          <<AnswerElement(Some(<<"102">>), Some(<<"B">>), Some(<<"no", " ">>)),
            AnswerElement(Some(<<"101">>), Undefined, Some(<<"yes">>))>>
    /\ Contains(result.message, json.questionId)

\* ------------------------------------------------------------------------
\* Properties of the item-failure policy and of the two listings
\* ------------------------------------------------------------------------
\* The navigation target of a button: the text between the first two single
\* quotes of its onclick, if it has two pieces.
TargetOf(button) ==
    IF button.onclick # <<>> /\ Len(Split(button.onclick[1], "'")) >= 2
    THEN Some(Split(button.onclick[1], "'")[2])
    ELSE Undefined

\* A button with title, description, image with source and a target.
HasAllParts(button) ==
    /\ button.title # <<>>
    /\ button.text # <<>>
    /\ button.image # <<>>
    /\ button.image[1].src # <<>>
    /\ TargetOf(button) # <<>>

\* ... whose target is more than "" or "/".
IsWellFormedButton(button) ==
    HasAllParts(button) /\ TargetOf(button)[1] \notin {<<>>, <<"/">>}

IsMalformedButton(button) == ~IsWellFormedButton(button)

IsLectureAnchor(a) ==
    /\ a.href # <<>>
    /\ Len(a.href[1]) >= 5
    /\ SubSeq(a.href[1], 1, 5) = <<"/", "Test", "/", "TestPractise", "/">>

\* The item failures the extraction of the page meets, the items it loops
\* over, and whether the page lacks a required container or answer field.
ItemFailures ==
    CASE json.page = "home" ->
            IF json.html.buttonPanel = <<>> THEN 0
            ELSE Len(SelectSeq(json.html.buttonPanel[1], IsMalformedButton))
      [] json.page = "unit" -> 0
      [] json.page = "question" ->
            TextFailures(json.html)
              + (IF json.html.imageFrame = <<>> THEN 0
                 ELSE Len(SelectSeq(json.html.imageFrame[1], YieldsFailure)))

Items ==
    CASE json.page = "home" -> Len(json.html.buttonPanel[1])
      [] json.page = "unit" -> Len(SelectSeq(json.html.verticalMenuPanel[1], IsLectureAnchor))
      [] json.page = "question" -> Len(ResourceChildren(json.html))

ItemsKept ==
    CASE json.page = "question" -> Len(result.val.resources)
      [] OTHER -> Len(result.val)

ItemsFailed ==
    CASE json.page = "question" -> Len(SelectSeq(json.html.imageFrame[1], YieldsFailure))
      [] OTHER -> ItemFailures

IsStructural ==
    CASE json.page = "home" -> json.html.buttonPanel = <<>>
      [] json.page = "unit" -> json.html.verticalMenuPanel = <<>>
      [] json.page = "question" ->
            \/ json.html.imageFrame = <<>>
            \/ \E i \in 1..Len(json.html.answers) : IsIncompleteAnswer(json.html.answers[i])

Diagnostics(n) == IF options.warnOnNonFatalParseErrors THEN n ELSE 0

\* C15: in each of the three extractions, with errorOnNonFatalParseErrors
\* false an item failure never makes the extraction throw and the returned
\* list holds the items without the failing ones; with it true the
\* extraction throws at the first failing item; each failure met emits one
\* diagnostic if warnOnNonFatalParseErrors is true and none if it is false,
\* so with both true the abort comes with the diagnostic of its item
\* already emitted; with the default options an extraction throws only for
\* a missing container or an incomplete answer.
C15_ItemFailurePolicy ==
    stage = "output" =>
       /\ ~options.errorOnNonFatalParseErrors =>
             /\ result.err <=> IsStructural
             /\ result.warns = Diagnostics(ItemFailures)
             /\ ~result.err => ItemsKept = Items - ItemsFailed
       /\ (options.errorOnNonFatalParseErrors /\ ItemFailures > 0) =>
             /\ result.err
             /\ result.warns = Diagnostics(1)
       /\ (options.errorOnNonFatalParseErrors /\ ItemFailures = 0) =>
             /\ result.err <=> IsStructural
             /\ result.warns = 0
       /\ options = defaultDataProcessorOptions => (result.err => IsStructural)

C15_Witness ==
    /\ Thrown("home")
    /\ options = [warnOnNonFatalParseErrors |-> TRUE, errorOnNonFatalParseErrors |-> TRUE]
    /\ json.html.buttonPanel = Some(<<UnitButton("Rules", "ro"), ButtonWithoutTitle("xx")>>)
    /\ result.warns = 1

\* id is what follows the last "/" of url, or url itself if it has none.
IsLastSegment(id, url) ==
    /\ ~Contains(id, <<"/">>)
    /\ \/ url = id
       \/ /\ Len(url) > Len(id)
          /\ SubSeq(url, Len(url) - Len(id), Len(url)) = <<"/">> \o id

\* C16 as stated: the units are those of the buttons that have a title, a
\* description, an image with a source and a quoted target in their
\* onclick, one each and in document order, and the id of each is the last
\* segment of its url.
C16_OneUnitPerButtonWithAllParts ==
    Returned("home") =>
       /\ Len(result.val) = Len(SelectSeq(json.html.buttonPanel[1], HasAllParts))
       /\ \A i \in 1..Len(result.val) :
             /\ result.val[i].name = SelectSeq(json.html.buttonPanel[1], HasAllParts)[i].title[1]
             /\ IsLastSegment(result.val[i].id, result.val[i].url)

\* C16 as amended: the units are those of the buttons that have a title, a
\* description, an image with a source and a quoted target other than ""
\* and "/", one each and in document order, with the button's title and
\* description, and the id of each is the last segment of its url; a button
\* whose target is "" or "/" yields no unit, as one that lacks a part.
C16_OneUnitPerWellFormedButton ==
    Returned("home") =>
       /\ Len(result.val) = Len(SelectSeq(json.html.buttonPanel[1], IsWellFormedButton))
       /\ \A i \in 1..Len(result.val) :
             /\ result.val[i].name
                  = SelectSeq(json.html.buttonPanel[1], IsWellFormedButton)[i].title[1]
             /\ result.val[i].description
                  = SelectSeq(json.html.buttonPanel[1], IsWellFormedButton)[i].text[1]
             /\ IsLastSegment(result.val[i].id, result.val[i].url)

C16_Witness ==
    /\ Returned("home")
    /\ json.html.buttonPanel = Some(<<ButtonTo("Root", <<"/">>), UnitButton("Signs", "zz")>>)
    /\ Len(result.val) = 1
    /\ result.val[1].name = <<"Signs">>
    /\ result.val[1].url = <<"Home", "/", "Tests", "/", "zz">>
    /\ result.val[1].id = <<"zz">>

\* C17: every ThematicUnit and every PractiseLecture an extraction returns
\* has a non-empty id and a non-empty url, and its id is the last segment
\* of its url, whatever the page (targets that are "/", that end in "/" or
\* that hold no "/" included).
C17_IdAndUrlNonEmpty ==
    (Returned("home") \/ Returned("unit")) =>
       \A i \in 1..Len(result.val) :
          /\ result.val[i].id # <<>>
          /\ result.val[i].url # <<>>
          /\ IsLastSegment(result.val[i].id, result.val[i].url)

\* C18 as stated: the lectures are those of the anchors of the side menu
\* whose href starts with /Test/TestPractise/, one each and in document
\* order, with url equal to the href, id the last segment and name the
\* anchor's text; a page without the side menu makes the extraction throw.
C18_UrlIsTargetPath ==
    /\ (stage = "output" /\ json.page = "unit" /\ json.html.verticalMenuPanel = <<>>)
       => result.err
    /\ Returned("unit") =>
          /\ Len(result.val) = Len(SelectSeq(json.html.verticalMenuPanel[1], IsLectureAnchor))
          /\ \A i \in 1..Len(result.val) :
                /\ result.val[i].url
                     = SelectSeq(json.html.verticalMenuPanel[1], IsLectureAnchor)[i].href[1]
                /\ IsLastSegment(result.val[i].id, result.val[i].url)
                /\ result.val[i].name
                     = SelectSeq(json.html.verticalMenuPanel[1], IsLectureAnchor)[i].text

\* C18 as amended: the same, but the url is the href without its leading
\* "/" (Test/TestPractise/24 for /Test/TestPractise/24).
C18_UrlIsTargetPathWithoutLeadingSlash ==
    /\ (stage = "output" /\ json.page = "unit" /\ json.html.verticalMenuPanel = <<>>)
       => result.err
    /\ Returned("unit") =>
          /\ Len(result.val) = Len(SelectSeq(json.html.verticalMenuPanel[1], IsLectureAnchor))
          /\ \A i \in 1..Len(result.val) :
                /\ <<"/">> \o result.val[i].url
                     = SelectSeq(json.html.verticalMenuPanel[1], IsLectureAnchor)[i].href[1]
                /\ IsLastSegment(result.val[i].id, result.val[i].url)
                /\ result.val[i].name
                     = SelectSeq(json.html.verticalMenuPanel[1], IsLectureAnchor)[i].text

C18_Witness ==
    /\ Returned("unit")
    /\ json.html.verticalMenuPanel =
          Some(<<Anchor(Some(<<"/", "Home">>), <<"Home">>), LectureAnchor("24")>>)
    /\ Len(result.val) = 1
    /\ result.val[1].url = <<"Test", "/", "TestPractise", "/", "24">>
    /\ result.val[1].id = <<"24">>
    /\ result.val[1].name = <<"Lecture", " ", "24">>

\* ------------------------------------------------------------------------
\* Properties of the in-memory mapping and of its loading
\* ------------------------------------------------------------------------
KeysOf(obj) == {obj[i].key : i \in 1..Len(obj)}

\* The code of the QuestionInfo for which the i-th fetcher call, a
\* getQuestion, was issued.
CodeOfCall(i) ==
    IF calls[i].at < Len(walk)
    THEN walk[calls[i].at + 1].info.code
    ELSE questionsInfo[qi].code

\* A step of one run leaves every key of the mapping in place, with its record.
MappingGrows ==
    run' = run =>
       \A key \in KeysOf(questions) :
          /\ HasKey(questions', key)
          /\ Lookup(questions', key) = Lookup(questions, key)

\* C19: within one run no step removes a key of the in-memory mapping or
\* changes its record; no two getQuestion calls of a run are for the same
\* code; a QuestionInfo whose detail is fetched is the first of the walk
\* with its code, and the mapping holds, from then on, the record built
\* from it, whatever later QuestionInfos with that code say; a key loaded
\* at start keeps the loaded record.
C19_MappingOnlyGrows ==
    /\ [][MappingGrows]_vars
    /\ [](/\ \A i, j \in CallsOf("getQuestion") : i # j => CodeOfCall(i) # CodeOfCall(j)
          /\ \A k \in 1..Len(walk) :
                walk[k].fetched =>
                   /\ \A j \in 1..(k - 1) : walk[j].info.code # walk[k].info.code
                   /\ ~HasKey(M0, walk[k].info.code)
                   /\ HasKey(questions, walk[k].info.code)
                   /\ Lookup(questions, walk[k].info.code) =
                         [correctAnswers |-> walk[k].info.correctAnswers,
                          answers |-> Detail(walk[k].info.id).answers,
                          resources |-> Detail(walk[k].info.id).resources,
                          texts |-> Detail(walk[k].info.id).texts]
          /\ pc \in {"forUnit", "awaitUnitPage", "forLecture", "awaitLectureTest",
                     "forQuestion", "awaitQuestion", "writeFile", "done"} =>
                \A key \in KeysOf(M0) :
                   HasKey(questions, key) /\ Lookup(questions, key) = Lookup(M0, key))

C19_Witness ==
    /\ pc = "done"
    /\ disk0 = JsonFile(<<>>)
    /\ \E j, k \in 1..Len(walk) :
          /\ j < k
          /\ walk[j].info.code = walk[k].info.code
          /\ walk[j].info.id # walk[k].info.id
          /\ walk[j].fetched
          /\ ~walk[k].fetched
          /\ Lookup(questions, walk[k].info.code).correctAnswers = walk[j].info.correctAnswers
          /\ walk[j].info.correctAnswers # walk[k].info.correctAnswers

\* C20: output.json is read when the home page, and nothing else, has been
\* fetched and its units extracted; a run that starts without a readable
\* JSON output fetches nothing but the home page, never enters the loops,
\* writes nothing and leaves the file as it was, so where there is no
\* output no run makes one; a run ends with cause "load" only so.
C20_LoadAfterHomeBeforeUnits ==
    /\ pc = "readFile" =>
          /\ Len(calls) = 1
          /\ calls[1].op = "getHomePage"
          /\ ~calls[1].failed
          /\ outstanding = 0
          /\ thematicUnits = ListedUnits
    /\ (\E i \in 1..Len(calls) : calls[i].op # "getHomePage") =>
          (disk0.kind = "json" /\ KeysOf(M0) \subseteq KeysOf(questions))
    /\ disk0.kind # "json" =>
          /\ pc \in {"main", "awaitHomePage", "readFile", "aborted"}
          /\ \A i \in 1..Len(calls) : calls[i].op = "getHomePage"
          /\ Len(calls) <= 1
          /\ writes = 0
          /\ disk = disk0
    /\ disk0 = NoFile => disk = NoFile
    /\ cause = "load" =>
          /\ pc = "aborted"
          /\ disk0.kind # "json"
          /\ Len(calls) = 1

C20_Witness ==
    /\ run = 2
    /\ pc = "aborted"
    /\ cause = "load"
    /\ disk0 = NoFile
    /\ disk = NoFile
    /\ Len(calls) = 1
    /\ Len(thematicUnits) = 2

====
